---------------------------- MODULE Spec2Model ----------------------------
(***************************************************************************)
(* Climate Credit Risk Engine (climateEngine + the pages that assemble a   *)
(* ClimateRiskReport from it).                                             *)
(*                                                                         *)
(* Number representation                                                   *)
(*   coordinates        hundredths of a degree   (19.05 -> 1905)           *)
(*   hazard sub-scores  integers 0..100 (the code rounds them)             *)
(*   weights            hundredths               (0.35 -> 35)              *)
(*   weighted scores, composite scores given to classifyRisk and           *)
(*   generateLendingAdjustments, noise           tenths  (24.9 -> 249)     *)
(*   Math.random()      multiples of 1/RandomUnit in [0,1)                 *)
(***************************************************************************)
EXTENDS Integers, Sequences, FiniteSets, TLC

VARIABLES
    input,          \* PropertyAssessmentInput given to the assessment
    random,         \* the four values Math.random() returns to noise(), in call order
    report,         \* Index page: useState<ClimateRiskReport | null>
    officerReport,  \* OfficersView: the useMemo'd ClimateRiskReport
    riskCall,       \* a direct call of classifyRisk: its argument and result
    lendCall,       \* a direct call of generateLendingAdjustments: arguments and result
    regionCalls,    \* the calls of getRegionProfile made so far: arguments and results
    factorCall,     \* a direct call of calculateFactorScores: arguments and result
    projectionCall, \* a direct call of generateProjections: arguments and result
    scorerCalls,    \* two calls of calculateFactorScores by one caller: arguments, draws, results
    reportsView,    \* ReportsView: status, running generations, pending timers
    portfolioView   \* PortfolioView: zones, the zones of the last render, running fetches

vars == <<input, random, report, officerReport, riskCall, lendCall,
          regionCalls, factorCall, projectionCall,
          scorerCalls, reportsView, portfolioView>>

Min(a, b) == IF a < b THEN a ELSE b
Max(a, b) == IF a > b THEN a ELSE b

-----------------------------------------------------------------------------
(* Bounds of the model *)

\* Math.random() is sampled at k/NoiseSteps (k < NoiseSteps) and at its largest value.
NoiseSteps == 4

\* classifyRisk is called with every score from -ScoreMargin to 100 + ScoreMargin
\* (whole units; every tenth in between is included).
ScoreMargin == 5

\* Sub-scores and scores given to generateLendingAdjustments lie within
\* RuleMargin steps of a rule threshold (plus the ends of the range).
RuleMargin == 1

-----------------------------------------------------------------------------
(* Region Resolver *)

Profile(name, region, flood, sea, heat, water) ==
    [name |-> name, region |-> region, flood_base |-> flood,
     sea_level_base |-> sea, heat_base |-> heat, water_scarcity_base |-> water]

getRegionProfileMemo(lat, lng) ==
    IF regionCalls # << >> THEN regionCalls[Len(regionCalls)].result
    ELSE IF lng >= 7900 /\ lng <= 8050 /\ lat >= 800 /\ lat <= 1300
    THEN Profile(<<"Chennai Metropolitan Region">>, "Tamil Nadu Coast", 72, 68, 75, 62)
    ELSE IF lng >= 7200 /\ lng <= 7350 /\ lat >= 1800 /\ lat <= 1950
    THEN Profile(<<"Mumbai Metropolitan Area">>, "Maharashtra Coast", 78, 74, 65, 45)
    ELSE IF lng >= 8800 /\ lng <= 8900 /\ lat >= 2200 /\ lat <= 2300
    THEN Profile(<<"Kolkata Urban Agglomeration">>, "West Bengal Delta", 85, 80, 70, 30)
    ELSE IF lng >= 7600 /\ lng <= 7750 /\ lat >= 800 /\ lat <= 900
    THEN Profile(<<"Thiruvananthapuram District">>, "Kerala Coast", 75, 65, 55, 20)
    ELSE IF lng >= 7600 /\ lng <= 8800 /\ lat >= 2400 /\ lat <= 3000
    THEN Profile(<<"Indo-Gangetic Plain">>, "Northern India", 60, 10, 85, 70)
    ELSE IF lng >= 6900 /\ lng <= 7700 /\ lat >= 2400 /\ lat <= 3000
    THEN Profile(<<"Rajasthan Arid Zone">>, "Northwestern India", 20, 5, 95, 90)
    ELSE IF lng >= 7400 /\ lng <= 8000 /\ lat >= 1400 /\ lat <= 2200
    THEN Profile(<<"Deccan Plateau Region">>, "Central India", 40, 8, 78, 65)
    ELSE IF lng >= 8900 /\ lat >= 2300 /\ lat <= 3000
    THEN Profile(<<"Northeast India">>, "Brahmaputra Basin", 88, 15, 55, 15)
    ELSE IF lng >= 6800 /\ lng <= 7500 /\ lat >= 2000 /\ lat <= 2400
    THEN Profile(<<"Gujarat Coastal Zone">>, "Western India", 55, 58, 80, 72)
    ELSE Profile(<<"Location", lat, lng>>, "Interior India", 38, 12, 68, 55)

getRegionProfileGujaratFirst(lat, lng) ==
    IF lng >= 7900 /\ lng <= 8050 /\ lat >= 800 /\ lat <= 1300
    THEN Profile(<<"Chennai Metropolitan Region">>, "Tamil Nadu Coast", 72, 68, 75, 62)
    ELSE IF lng >= 7200 /\ lng <= 7350 /\ lat >= 1800 /\ lat <= 1950
    THEN Profile(<<"Mumbai Metropolitan Area">>, "Maharashtra Coast", 78, 74, 65, 45)
    ELSE IF lng >= 8800 /\ lng <= 8900 /\ lat >= 2200 /\ lat <= 2300
    THEN Profile(<<"Kolkata Urban Agglomeration">>, "West Bengal Delta", 85, 80, 70, 30)
    ELSE IF lng >= 7600 /\ lng <= 7750 /\ lat >= 800 /\ lat <= 900
    THEN Profile(<<"Thiruvananthapuram District">>, "Kerala Coast", 75, 65, 55, 20)
    ELSE IF lng >= 7600 /\ lng <= 8800 /\ lat >= 2400 /\ lat <= 3000
    THEN Profile(<<"Indo-Gangetic Plain">>, "Northern India", 60, 10, 85, 70)
    ELSE IF lng >= 6900 /\ lng <= 7700 /\ lat >= 2400 /\ lat <= 3000
    THEN Profile(<<"Rajasthan Arid Zone">>, "Northwestern India", 20, 5, 95, 90)
    ELSE IF lng >= 6800 /\ lng <= 7500 /\ lat >= 2000 /\ lat <= 2400
    THEN Profile(<<"Gujarat Coastal Zone">>, "Western India", 55, 58, 80, 72)
    ELSE IF lng >= 7400 /\ lng <= 8000 /\ lat >= 1400 /\ lat <= 2200
    THEN Profile(<<"Deccan Plateau Region">>, "Central India", 40, 8, 78, 65)
    ELSE IF lng >= 8900 /\ lat >= 2300 /\ lat <= 3000
    THEN Profile(<<"Northeast India">>, "Brahmaputra Basin", 88, 15, 55, 15)
    ELSE Profile(<<"Location", lat, lng>>, "Interior India", 38, 12, 68, 55)

getRegionProfileOpenEdge(lat, lng) ==
    IF lng >= 7900 /\ lng <= 8050 /\ lat >= 800 /\ lat <= 1300
    THEN Profile(<<"Chennai Metropolitan Region">>, "Tamil Nadu Coast", 72, 68, 75, 62)
    ELSE IF lng >= 7200 /\ lng <= 7350 /\ lat >= 1800 /\ lat < 1950
    THEN Profile(<<"Mumbai Metropolitan Area">>, "Maharashtra Coast", 78, 74, 65, 45)
    ELSE IF lng >= 8800 /\ lng <= 8900 /\ lat >= 2200 /\ lat <= 2300
    THEN Profile(<<"Kolkata Urban Agglomeration">>, "West Bengal Delta", 85, 80, 70, 30)
    ELSE IF lng >= 7600 /\ lng <= 7750 /\ lat >= 800 /\ lat <= 900
    THEN Profile(<<"Thiruvananthapuram District">>, "Kerala Coast", 75, 65, 55, 20)
    ELSE IF lng >= 7600 /\ lng <= 8800 /\ lat >= 2400 /\ lat <= 3000
    THEN Profile(<<"Indo-Gangetic Plain">>, "Northern India", 60, 10, 85, 70)
    ELSE IF lng >= 6900 /\ lng <= 7700 /\ lat >= 2400 /\ lat <= 3000
    THEN Profile(<<"Rajasthan Arid Zone">>, "Northwestern India", 20, 5, 95, 90)
    ELSE IF lng >= 7400 /\ lng <= 8000 /\ lat >= 1400 /\ lat <= 2200
    THEN Profile(<<"Deccan Plateau Region">>, "Central India", 40, 8, 78, 65)
    ELSE IF lng >= 8900 /\ lat >= 2300 /\ lat <= 3000
    THEN Profile(<<"Northeast India">>, "Brahmaputra Basin", 88, 15, 55, 15)
    ELSE IF lng >= 6800 /\ lng <= 7500 /\ lat >= 2000 /\ lat <= 2400
    THEN Profile(<<"Gujarat Coastal Zone">>, "Western India", 55, 58, 80, 72)
    ELSE Profile(<<"Location", lat, lng>>, "Interior India", 38, 12, 68, 55)

\* lat, lng in hundredths of a degree.  The default profile's name embeds
\* lat.toFixed(2) and lng.toFixed(2).
getRegionProfile(lat, lng) ==
    IF lng >= 7900 /\ lng <= 8050 /\ lat >= 800 /\ lat <= 1300
    THEN Profile(<<"Chennai Metropolitan Region">>, "Tamil Nadu Coast", 72, 68, 75, 62)
    ELSE IF lng >= 7200 /\ lng <= 7350 /\ lat >= 1800 /\ lat <= 1950
    THEN Profile(<<"Mumbai Metropolitan Area">>, "Maharashtra Coast", 78, 74, 65, 45)
    ELSE IF lng >= 8800 /\ lng <= 8900 /\ lat >= 2200 /\ lat <= 2300
    THEN Profile(<<"Kolkata Urban Agglomeration">>, "West Bengal Delta", 85, 80, 70, 30)
    ELSE IF lng >= 7600 /\ lng <= 7750 /\ lat >= 800 /\ lat <= 900
    THEN Profile(<<"Thiruvananthapuram District">>, "Kerala Coast", 75, 65, 55, 20)
    ELSE IF lng >= 7600 /\ lng <= 8800 /\ lat >= 2400 /\ lat <= 3000
    THEN Profile(<<"Indo-Gangetic Plain">>, "Northern India", 60, 10, 85, 70)
    ELSE IF lng >= 6900 /\ lng <= 7700 /\ lat >= 2400 /\ lat <= 3000
    THEN Profile(<<"Rajasthan Arid Zone">>, "Northwestern India", 20, 5, 95, 90)
    ELSE IF lng >= 7400 /\ lng <= 8000 /\ lat >= 1400 /\ lat <= 2200
    THEN Profile(<<"Deccan Plateau Region">>, "Central India", 40, 8, 78, 65)
    ELSE IF lng >= 8900 /\ lat >= 2300 /\ lat <= 3000
    THEN Profile(<<"Northeast India">>, "Brahmaputra Basin", 88, 15, 55, 15)
    ELSE IF lng >= 6800 /\ lng <= 7500 /\ lat >= 2000 /\ lat <= 2400
    THEN Profile(<<"Gujarat Coastal Zone">>, "Western India", 55, 58, 80, 72)
    ELSE Profile(<<"Location", lat, lng>>, "Interior India", 38, 12, 68, 55)

-----------------------------------------------------------------------------
(* Property type modifiers *)

PROPERTY_MODIFIERS ==
    [residential  |-> [flood |-> 0,  heat |-> 5,  sea |-> 0, water |-> 0],
     commercial   |-> [flood |-> -5, heat |-> 8,  sea |-> 5, water |-> 5],
     industrial   |-> [flood |-> 10, heat |-> 10, sea |-> 8, water |-> 15],
     agricultural |-> [flood |-> 15, heat |-> 15, sea |-> 5, water |-> 20],
     mixed_use    |-> [flood |-> 5,  heat |-> 8,  sea |-> 5, water |-> 8]]

\* NaN, the result of arithmetic on undefined: an integer that no sum and no
\* score of the engine can take.
NaN == 0 - 2^30

\* Names that PROPERTY_MODIFIERS, an object literal, inherits from
\* Object.prototype.  Looking one up yields a function or an object, which is
\* truthy and has no flood, heat, sea or water property.
ObjectPrototypeMembers ==
    {"constructor", "toString", "valueOf", "hasOwnProperty", "__proto__"}

\* PROPERTY_MODIFIERS[propertyType] || PROPERTY_MODIFIERS.residential.  The
\* fields of an inherited member are undefined, which the sums turn into NaN.
modifiersFor(propertyType) ==
    IF propertyType \in DOMAIN PROPERTY_MODIFIERS
    THEN PROPERTY_MODIFIERS[propertyType]
    ELSE IF propertyType \in ObjectPrototypeMembers
    THEN [flood |-> NaN, heat |-> NaN, sea |-> NaN, water |-> NaN]
    ELSE PROPERTY_MODIFIERS.residential

-----------------------------------------------------------------------------
(* Risk classification; score in tenths *)

classifyRiskLe(score) ==
    IF score <= 250 THEN "Low"
    ELSE IF score <= 500 THEN "Moderate"
    ELSE IF score <= 750 THEN "High"
    ELSE "Severe"

classifyRisk(score) ==
    IF score = NaN THEN "Severe"   \* every comparison with NaN is false
    ELSE IF score < 250 THEN "Low"
    ELSE IF score < 500 THEN "Moderate"
    ELSE IF score < 750 THEN "High"
    ELSE "Severe"

-----------------------------------------------------------------------------
(* IEEE-754 doubles, as JavaScript's number type computes with them.       *)
(* A double x with 0 <= x < 128 that is a multiple of 2^-56 is the triple  *)
(* <<l0, l1, l2>> of 24-bit limbs with x = (l0 + l1*2^24 + l2*2^48) / 2^56 *)
(* (the top limb takes the overflow).  Every double that arises below is 0 *)
(* or at least 0.1, so it is such a multiple.                              *)

Limb == 2^24

Carry(a) ==
    LET c0 == a[1] \div Limb
        c1 == (a[2] + c0) \div Limb
    IN  <<a[1] % Limb, (a[2] + c0) % Limb, a[3] + c1>>

RECURSIVE Bits(_)
\* The number of binary digits of n.
Bits(n) == IF n = 0 THEN 0 ELSE 1 + Bits(n \div 2)

BitLength(x) ==
    IF x[3] > 0 THEN 48 + Bits(x[3])
    ELSE IF x[2] > 0 THEN 24 + Bits(x[2])
    ELSE Bits(x[1])

\* Round x + (r / den) * 2^-56, with 0 <= r < den, to the nearest double
\* (53 significant bits), a tie going to the even one.
RoundToDouble(x, r, den) ==
    LET drop == BitLength(x) - 53
    IN  IF drop < 0 \/ (drop = 0 /\ r = 0) THEN x
        ELSE IF drop = 0
        THEN IF 2 * r > den \/ (2 * r = den /\ x[1] % 2 = 1)
             THEN Carry(<<x[1] + 1, x[2], x[3]>>)
             ELSE x
        ELSE LET m    == 2^drop
                 low  == x[1] % m
                 half == m \div 2
                 odd  == (x[1] \div m) % 2 = 1
                 up   == low > half \/ (low = half /\ (r > 0 \/ odd))
             IN  Carry(<<x[1] - low + (IF up THEN m ELSE 0), x[2], x[3]>>)

\* The double nearest to n / den (a decimal literal, parseFloat of a decimal
\* string); n < 2^16, den <= 100.
NearestDouble(n, den) ==
    LET a2 == n * 2^8
        r2 == a2 % den
        a1 == r2 * Limb
        r1 == a1 % den
        a0 == r1 * Limb
    IN  RoundToDouble(<<a0 \div den, a1 \div den, a2 \div den>>, a0 % den, den)

\* x + y in double arithmetic.
DoubleAdd(x, y) ==
    RoundToDouble(Carry(<<x[1] + y[1], x[2] + y[2], x[3] + y[3]>>), 0, 1)

\* k * x in double arithmetic, 0 <= k <= 100 an integer.
DoubleTimes(k, x) ==
    RoundToDouble(Carry(<<k * x[1], k * x[2], k * x[3]>>), 0, 1)

\* floor(k * x + 1/2) for the double x, exactly.
FloorHalfUp(k, x) ==
    LET y == Carry(<<k * x[1], k * x[2], k * x[3] + 2^7>>)
    IN  y[3] \div 2^8

MathFloorDouble(x) == x[3] \div 2^8

\* Math.round(x): the integer nearest to x, a tie going up.
MathRoundDouble(x) == FloorHalfUp(1, x)

\* parseFloat(x.toFixed(1)) in tenths: the n with n / 10 nearest to x, the
\* larger n when x is exactly halfway.
toFixed1(x) == FloorHalfUp(10, x)

-----------------------------------------------------------------------------
(* Core scoring engine *)

\* Math.random() returns u / RandomUnit, u in 0 .. RandomUnit - 1.
RandomUnit == 120

noiseWide(u) == ((2 * u - RandomUnit) * 14 * 10) \div (2 * RandomUnit)

\* (Math.random() - 0.5) * 12, in tenths.
noise(u) == ((2 * u - RandomUnit) * 12 * 10) \div (2 * RandomUnit)

\* Math.round of a value given in tenths: the nearest integer, a tie going up.
MathRound(v) == (v + 5) \div 10

clampNoUpper(v) == Max(0, MathRound(v))

\* Math.max(0, Math.min(100, Math.round(v))), v in tenths; NaN stays NaN.
clamp(v) == IF v = NaN THEN NaN ELSE Max(0, Min(100, MathRound(v)))

weightsDrifted == [flood |-> 35, sea |-> 25, heat |-> 25, water |-> 25]

\* Factor weights, in hundredths.
weights == [flood |-> 35, sea |-> 25, heat |-> 25, water |-> 15]

\* (score * weight).toFixed(0) in place of toFixed(1).
weightedScoreOfWhole(score, weight) == 10 * ((score * weight + 50) \div 100)

\* parseFloat((score * weight).toFixed(1)), in tenths; score in 0..100,
\* weight in hundredths (the literal 0.35 is the double nearest to 35/100).
weightedScoreOf(score, weight) ==
    toFixed1(DoubleTimes(score, NearestDouble(weight, 100)))

\* weightedScoreOf, tabulated.
weightedScores ==
    [weight \in {weights.flood, weights.sea, weights.heat, weights.water} |->
        [score \in 0 .. 100 |-> weightedScoreOf(score, weight)]]

weightedScore(score, weight) ==
    IF score = NaN THEN NaN
    ELSE IF score \in DOMAIN weightedScores[weight]
    THEN weightedScores[weight][score]
    ELSE weightedScoreOf(score, weight)

Factor(name, score, weight) ==
    [factor |-> name, score |-> score, weight |-> weight,
     weighted_score |-> weightedScore(score, weight)]

\* base + modifier + noise() in tenths, the noise given in tenths.
noisySum(base, modifier, n) ==
    IF modifier = NaN THEN NaN ELSE (base + modifier) * 10 + n

\* rnd: the values of Math.random() for the flood, sea, heat and water noise.
calculateFactorScores(lat, lng, propertyType, rnd) ==
    LET profile    == getRegionProfile(lat, lng)
        mod        == modifiersFor(propertyType)
        floodScore == clamp(noisySum(profile.flood_base, mod.flood, noise(rnd[1])))
        seaScore   == clamp(noisySum(profile.sea_level_base, mod.sea, noise(rnd[2])))
        heatScore  == clamp(noisySum(profile.heat_base, mod.heat, noise(rnd[3])))
        waterScore == clamp(noisySum(profile.water_scarcity_base, mod.water, noise(rnd[4])))
    IN  << Factor("Flood Probability", floodScore, weights.flood),
           Factor("Sea-Level Rise Exposure", seaScore, weights.sea),
           Factor("Heat Stress Index", heatScore, weights.heat),
           Factor("Water Scarcity Projection", waterScore, weights.water) >>

-----------------------------------------------------------------------------
(* Lending adjustment recommendation engine *)

Adjustment(type, title, value, severity) ==
    [type |-> type, title |-> title, value |-> value, severity |-> severity]

\* factors.find(f => f.factor === name)?.score ?? dflt
scoreOf(factors, name, dflt) ==
    LET hits == {i \in DOMAIN factors : factors[i].factor = name}
    IN  IF hits = {} THEN dflt
        ELSE factors[CHOOSE i \in hits : \A j \in hits : i <= j].score

rateAdjOfLe(score) ==
    IF score <= 250 THEN 0 ELSE IF score <= 500 THEN 5 ELSE IF score <= 750 THEN 15 ELSE 25

\* score < 25 ? 0 : score < 50 ? 0.5 : score < 75 ? 1.5 : 2.5, in tenths.
rateAdjOf(score) ==
    IF score = NaN THEN 25
    ELSE IF score < 250 THEN 0 ELSE IF score < 500 THEN 5 ELSE IF score < 750 THEN 15 ELSE 25

\* `+${rateAdj.toFixed(1)}% p.a.` : the pieces of the formatted string.
rateValue(rateAdj) == <<"+", rateAdj \div 10, ".", rateAdj % 10, "% p.a.">>

\* `Max ${capPct}% LTV`
capValue(capPct) == <<"Max ", capPct, "% LTV">>

\* Interest rate adjustment (rule 1); score in tenths.
interestRule(score, classification) ==
    LET rateAdj == rateAdjOf(score)
    IN  IF rateAdj > 0
        THEN << Adjustment("interest_rate", "Climate Risk Premium", rateValue(rateAdj),
                   IF classification = "Severe" THEN "critical"
                   ELSE IF classification = "High" THEN "warning" ELSE "info") >>
        ELSE << >>

floodRuleGe(floodScore) ==
    IF floodScore > 40
    THEN << Adjustment("insurance",
               IF floodScore >= 65 THEN "Mandatory Flood Insurance"
                                   ELSE "Recommended Flood Cover",
               IF floodScore >= 65 THEN "Mandatory" ELSE "Recommended",
               IF floodScore >= 65 THEN "critical" ELSE "warning") >>
    ELSE << >>

\* Insurance requirements: flood (rule 2).
floodRule(floodScore) ==
    IF floodScore > 40
    THEN << Adjustment("insurance",
               IF floodScore > 65 THEN "Mandatory Flood Insurance"
                                  ELSE "Recommended Flood Cover",
               IF floodScore > 65 THEN "Mandatory" ELSE "Recommended",
               IF floodScore > 65 THEN "critical" ELSE "warning") >>
    ELSE << >>

coastalRuleGe(seaScore) ==
    IF seaScore >= 50
    THEN << Adjustment("insurance", "Coastal Hazard Insurance", "Required",
               IF seaScore > 70 THEN "critical" ELSE "warning") >>
    ELSE << >>

\* Insurance requirements: coastal hazard (rule 3).
coastalRule(seaScore) ==
    IF seaScore > 50
    THEN << Adjustment("insurance", "Coastal Hazard Insurance", "Required",
               IF seaScore > 70 THEN "critical" ELSE "warning") >>
    ELSE << >>

loanCapRuleFlat(classification) ==
    IF classification = "High" \/ classification = "Severe"
    THEN << Adjustment("loan_cap", "Loan-to-Value Cap", capValue(70),
               IF classification = "Severe" THEN "critical" ELSE "warning") >>
    ELSE << >>

loanCapRuleSevereOnly(classification) ==
    IF classification = "Severe"
    THEN << Adjustment("loan_cap", "Loan-to-Value Cap", capValue(60), "critical") >>
    ELSE << >>

\* Loan cap (rule 4).
loanCapRule(classification) ==
    IF classification = "High" \/ classification = "Severe"
    THEN LET capPct == IF classification = "Severe" THEN 60 ELSE 70
         IN  << Adjustment("loan_cap", "Loan-to-Value Cap", capValue(capPct),
                   IF classification = "Severe" THEN "critical" ELSE "warning") >>
    ELSE << >>

dueDiligenceRuleHigh(classification) ==
    IF classification = "High" \/ classification = "Severe"
    THEN << Adjustment("enhanced_due_diligence", "Enhanced Climate Due Diligence",
               "Required", "critical") >>
    ELSE << >>

\* Enhanced due diligence (rule 5).
dueDiligenceRule(classification) ==
    IF classification = "Severe"
    THEN << Adjustment("enhanced_due_diligence", "Enhanced Climate Due Diligence",
               "Required", "critical") >>
    ELSE << >>

\* Positive note for low risk (rule 6).
lowRiskRuleModerate(classification) ==
    IF classification \in {"Low", "Moderate"}
    THEN << Adjustment("risk_warning", "Standard Lending Terms Applicable",
               "No adjustment", "info") >>
    ELSE << >>

lowRiskRule(classification) ==
    IF classification = "Low"
    THEN << Adjustment("risk_warning", "Standard Lending Terms Applicable",
               "No adjustment", "info") >>
    ELSE << >>

agriculturalRuleGe(propertyType, score) ==
    IF propertyType = "agricultural" /\ score >= 400
    THEN << Adjustment("risk_warning", "Kharif/Rabi Season Risk", "Conditional", "warning") >>
    ELSE << >>

\* Agricultural special conditions (rule 7); score in tenths.
agriculturalRule(propertyType, score) ==
    IF propertyType = "agricultural" /\ score > 400
    THEN << Adjustment("risk_warning", "Kharif/Rabi Season Risk", "Conditional", "warning") >>
    ELSE << >>

generateLendingAdjustmentsCapFirst(score, classification, propertyType, factors) ==
    LET floodScore == scoreOf(factors, "Flood Probability", 0)
        seaScore   == scoreOf(factors, "Sea-Level Rise Exposure", 0)
    IN  interestRule(score, classification)
        \o loanCapRule(classification)
        \o floodRule(floodScore)
        \o coastalRule(seaScore)
        \o dueDiligenceRule(classification)
        \o lowRiskRule(classification)
        \o agriculturalRule(propertyType, score)

\* score in tenths.  Each rule pushes no entry or one, in this order.
generateLendingAdjustments(score, classification, propertyType, factors) ==
    LET floodScore == scoreOf(factors, "Flood Probability", 0)
        seaScore   == scoreOf(factors, "Sea-Level Rise Exposure", 0)
    IN  interestRule(score, classification)
        \o floodRule(floodScore)
        \o coastalRule(seaScore)
        \o loanCapRule(classification)
        \o dueDiligenceRule(classification)
        \o lowRiskRule(classification)
        \o agriculturalRule(propertyType, score)

-----------------------------------------------------------------------------
(* 20-year projection engine                                               *)
(* Its doubles are 0 or at least 0.01 and below 128: multiples of 2^-59,   *)
(* held as limb triples in that unit, x = (l0 + l1*2^24 + l2*2^48) / 2^59. *)

\* A double given in units of 2^-56, in units of 2^-59.
Fine(x) == Carry(<<8 * x[1], 8 * x[2], 8 * x[3]>>)

\* The integer n as a double.
FineInt(n) == <<0, 0, n * 2^11>>

Digit == 2^12

\* The six base-2^12 digits of a limb triple, lowest first.
Digits(x) ==
    <<x[1] % Digit, x[1] \div Digit, x[2] % Digit, x[2] \div Digit,
      x[3] % Digit, x[3] \div Digit>>

\* x * y in double arithmetic: the exact product, rounded to the nearest
\* double.  X and Y are the digits of x and y; sk is twice the k-th column of
\* the product (the sum of the X[a] * Y[b] with a + b = k + 1) plus the carry
\* from the columns below, so sk % Digit is the k-th digit of twice the
\* product in units of 2^-118.  The digits 6.. are the product in units of
\* 2^-59 and the digits 1..5 the rest, which counts as 0 (none), 1 (below
\* half a unit), 2 (half) or 3 (above half).
DoubleProduct(x, y) ==
    LET X   == Digits(x)
        Y   == Digits(y)
        s1  == 2 * (X[1] * Y[1])
        s2  == 2 * (X[1] * Y[2] + X[2] * Y[1]) + (s1 \div Digit)
        s3  == 2 * (X[1] * Y[3] + X[2] * Y[2] + X[3] * Y[1]) + (s2 \div Digit)
        s4  == 2 * (X[1] * Y[4] + X[2] * Y[3]
                     + X[3] * Y[2] + X[4] * Y[1]) + (s3 \div Digit)
        s5  == 2 * (X[1] * Y[5] + X[2] * Y[4]
                     + X[3] * Y[3] + X[4] * Y[2] + X[5] * Y[1]) + (s4 \div Digit)
        s6  == 2 * (X[1] * Y[6] + X[2] * Y[5] + X[3] * Y[4]
                     + X[4] * Y[3] + X[5] * Y[2] + X[6] * Y[1]) + (s5 \div Digit)
        s7  == 2 * (X[2] * Y[6] + X[3] * Y[5]
                     + X[4] * Y[4] + X[5] * Y[3] + X[6] * Y[2]) + (s6 \div Digit)
        s8  == 2 * (X[3] * Y[6] + X[4] * Y[5]
                     + X[5] * Y[4] + X[6] * Y[3]) + (s7 \div Digit)
        s9  == 2 * (X[4] * Y[6] + X[5] * Y[5] + X[6] * Y[4]) + (s8 \div Digit)
        s10 == 2 * (X[5] * Y[6] + X[6] * Y[5]) + (s9 \div Digit)
        s11 == 2 * (X[6] * Y[6]) + (s10 \div Digit)
        s12 == s11 \div Digit
        low == (s1 % Digit) + (s2 % Digit) + (s3 % Digit) + (s4 % Digit)
        top == s5 % Digit
        rest == IF low = 0 /\ top = 0 THEN 0
                ELSE IF 2 * top < Digit THEN 1
                ELSE IF 2 * top = Digit /\ low = 0 THEN 2
                ELSE 3
    IN  RoundToDouble(<<(s6 % Digit) + Digit * (s7 % Digit),
                        (s8 % Digit) + Digit * (s9 % Digit),
                        (s10 % Digit) + Digit * (s11 % Digit)
                            + Digit * Digit * s12>>,
                      rest, 4)

MathMin100NoCap(x) == x

\* Math.min(100, x).
MathMin100(x) == IF x[3] >= 100 * 2^11 THEN FineInt(100) ELSE x

\* parseFloat(x.toFixed(1)) in tenths.
toFixed1Fine(x) ==
    LET y == Carry(<<10 * x[1], 10 * x[2], 10 * x[3] + 2^10>>)
    IN  y[3] \div 2^11

ProjectionRatesDrifted ==
    [flood |-> <<18, 7>>, heat |-> <<15, 9>>, sea |-> <<22, 6>>, water |-> <<12, 5>>]

\* The coefficients of t and of t * t for each hazard.
ProjectionRates ==
    [flood |-> <<18, 7>>, heat |-> <<15, 9>>, sea |-> <<22, 5>>, water |-> <<12, 6>>]

\* The doubles t * rate[1] and t * t * rate[2] with t = i / 10.
termsOf(i, rate) ==
    LET t == Fine(NearestDouble(i, 10))
    IN  <<DoubleTimes(rate[1], t), DoubleTimes(rate[2], DoubleProduct(t, t))>>

\* termsOf, tabulated.
projectionTerms ==
    [h \in DOMAIN ProjectionRates |-> [i \in 0 .. 10 |-> termsOf(i, ProjectionRates[h])]]

\* Math.min(100, base + t * rate[1] + t * t * rate[2]) with t = i / 10.
projectedOf(h, base, i) ==
    MathMin100(DoubleAdd(DoubleAdd(FineInt(base), projectionTerms[h][i][1]),
                         projectionTerms[h][i][2]))

\* projectedOf, tabulated for the sub-scores 0..100.
projectedValues ==
    [h \in DOMAIN ProjectionRates |->
        [base \in 0 .. 100 |-> [i \in 0 .. 10 |-> projectedOf(h, base, i)]]]

projected(h, base, i) ==
    IF base \in 0 .. 100 THEN projectedValues[h][base][i]
    ELSE projectedOf(h, base, i)

compositeWeightsDrifted ==
    [flood |-> Fine(NearestDouble(40, 100)), sea |-> Fine(NearestDouble(25, 100)),
     heat |-> Fine(NearestDouble(25, 100)), water |-> Fine(NearestDouble(15, 100))]

\* The weights 0.35, 0.25 and 0.15 of the composite, as doubles.
compositeWeights ==
    [flood |-> Fine(NearestDouble(35, 100)), sea |-> Fine(NearestDouble(25, 100)),
     heat |-> Fine(NearestDouble(25, 100)), water |-> Fine(NearestDouble(15, 100))]

\* The unrounded projected value times its weight, tabulated.
weightedValues ==
    [h \in DOMAIN ProjectionRates |->
        [base \in 0 .. 100 |->
            [i \in 0 .. 10 |->
                DoubleProduct(projectedValues[h][base][i], compositeWeights[h])]]]

weighted(h, base, i) ==
    IF base \in 0 .. 100 THEN weightedValues[h][base][i]
    ELSE DoubleProduct(projectedOf(h, base, i), compositeWeights[h])

\* flood_risk * 0.35 + sea_level_rise * 0.25 + heat_stress * 0.25
\* + water_scarcity * 0.15, of the unrounded values.
compositeOf(i, floodBase, heatBase, seaBase, waterBase) ==
    DoubleAdd(DoubleAdd(DoubleAdd(weighted("flood", floodBase, i),
                                  weighted("sea", seaBase, i)),
                        weighted("heat", heatBase, i)),
              weighted("water", waterBase, i))

ProjectionPointYearly(baseYear, i, floodBase, heatBase, seaBase, waterBase) ==
    LET flood_risk     == projected("flood", floodBase, i)
        heat_stress    == projected("heat", heatBase, i)
        sea_level_rise == projected("sea", seaBase, i)
        water_scarcity == projected("water", waterBase, i)
    IN  [year           |-> baseYear + i,
         flood_risk     |-> toFixed1Fine(flood_risk),
         heat_stress    |-> toFixed1Fine(heat_stress),
         sea_level_rise |-> toFixed1Fine(sea_level_rise),
         water_scarcity |-> toFixed1Fine(water_scarcity),
         composite_risk |-> toFixed1Fine(compositeOf(i, floodBase, heatBase,
                                                     seaBase, waterBase))]

\* One ProjectionDataPoint; the risks in tenths.
ProjectionPoint(baseYear, i, floodBase, heatBase, seaBase, waterBase) ==
    LET flood_risk     == projected("flood", floodBase, i)
        heat_stress    == projected("heat", heatBase, i)
        sea_level_rise == projected("sea", seaBase, i)
        water_scarcity == projected("water", waterBase, i)
    IN  [year           |-> baseYear + i * 2,
         flood_risk     |-> toFixed1Fine(flood_risk),
         heat_stress    |-> toFixed1Fine(heat_stress),
         sea_level_rise |-> toFixed1Fine(sea_level_rise),
         water_scarcity |-> toFixed1Fine(water_scarcity),
         composite_risk |-> toFixed1Fine(compositeOf(i, floodBase, heatBase,
                                                     seaBase, waterBase))]

\* baseYear: new Date().getFullYear().  Array.from({ length: 11 }, ...) is
\* the sequence of the points i = 0, ..., 10.
generateProjections(factors, baseYear) ==
    LET floodBase == scoreOf(factors, "Flood Probability", 50)
        heatBase  == scoreOf(factors, "Heat Stress Index", 50)
        seaBase   == scoreOf(factors, "Sea-Level Rise Exposure", 50)
        waterBase == scoreOf(factors, "Water Scarcity Projection", 50)
    IN  [n \in 1 .. 11 |->
            ProjectionPoint(baseYear, n - 1, floodBase, heatBase, seaBase, waterBase)]

-----------------------------------------------------------------------------
(* Assembling a report *)

\* NearestDouble(t, 10), tabulated for the weighted scores of sub-scores in 0..100.
oneDecimals == [t \in 0 .. 350 |-> NearestDouble(t, 10)]

\* The double a weighted score of t tenths is held as.
oneDecimal(t) == IF t \in DOMAIN oneDecimals THEN oneDecimals[t] ELSE NearestDouble(t, 10)

RECURSIVE rawScoreOf(_, _)
\* factors.reduce((sum, f) => sum + f.weighted_score, 0) continued from the
\* partial sum `sum`: each weighted_score is the double nearest to its
\* one-decimal value, and each + is a double addition.
rawScoreOf(sum, factors) ==
    IF factors = << >> THEN sum
    ELSE rawScoreOf(DoubleAdd(sum, oneDecimal(factors[1].weighted_score)), Tail(factors))

\* Math.round(rawScore)
roundedSum(factors) == MathRoundDouble(rawScoreOf(<<0, 0, 0>>, factors))

assembleUnrounded(in, factors, score) ==
    LET classification == classifyRisk(toFixed1(rawScoreOf(<<0, 0, 0>>, factors)))
        profile        == getRegionProfile(in.latitude, in.longitude)
    IN  [latitude |-> in.latitude, longitude |-> in.longitude,
         property_type |-> in.property_type,
         location_name |-> profile.name, region |-> profile.region,
         climate_risk_score |-> score,
         risk_classification |-> classification,
         factors |-> factors,
         lending_adjustments |->
             generateLendingAdjustments(score * 10, classification, in.property_type, factors)]

\* The report fields derived from (input, factors, score); score in whole units.
\* The projections field is generateProjections(factors), a function of the
\* factors field alone; ProjectionSpec holds it.
assemble(in, factors, score) ==
    LET classification == classifyRisk(score * 10)
        profile        == getRegionProfile(in.latitude, in.longitude)
    IN  [latitude |-> in.latitude, longitude |-> in.longitude,
         property_type |-> in.property_type,
         location_name |-> profile.name, region |-> profile.region,
         climate_risk_score |-> score,
         risk_classification |-> classification,
         factors |-> factors,
         lending_adjustments |->
             generateLendingAdjustments(score * 10, classification, in.property_type, factors)]

null == << >>

-----------------------------------------------------------------------------
(* Inputs *)

\* One point inside each of the nine boxes, in the order the resolver tests
\* them, and Bengaluru (12.97, 77.59), which is in none.
Coordinates ==
    { <<1200, 8000>>, <<1905, 7283>>, <<2257, 8841>>, <<850, 7700>>, <<2600, 8000>>,
      <<2629, 7302>>, <<1800, 7700>>, <<2600, 9200>>, <<2200, 7000>>, <<1297, 7759>> }

\* The five PropertyType tags and one tag the table does not hold.
PropertyTypes == DOMAIN PROPERTY_MODIFIERS \cup {"warehouse"}

Classifications == {"Low", "Moderate", "High", "Severe"}

RandomDraws ==
    {(k * RandomUnit) \div NoiseSteps : k \in 0 .. (NoiseSteps - 1)} \cup {RandomUnit - 1}

Inputs ==
    {[latitude |-> c[1], longitude |-> c[2], property_type |-> p] :
        c \in Coordinates, p \in PropertyTypes}

NoInput == [latitude |-> 0, longitude |-> 0, property_type |-> "residential"]
NoRandom == <<0, 0, 0, 0>>
NoRiskCall == [score |-> 0, called |-> FALSE, result |-> "Low"]
NoLendCall == [score |-> 0, classification |-> "Low", propertyType |-> "residential",
               factors |-> << >>, called |-> FALSE, result |-> << >>]
NoFactorCall == [latitude |-> 0, longitude |-> 0, propertyType |-> "residential",
                 random |-> NoRandom, called |-> FALSE, result |-> << >>]
NoProjectionCall == [factors |-> << >>, baseYear |-> 0, called |-> FALSE, result |-> << >>]

\* ReportsView as mounted: useState("ready"), useState(SEED_REPORTS) (six
\* records); no handleGenerate is running and no reset timer is pending.
ReportsViewMounted ==
    [status |-> "ready", history |-> 6, generating |-> << >>, timers |-> << >>,
     clicks |-> 0]

\* PortfolioView as mounted: useState([]) for zones, useState(null) for
\* selectedZoneId; `rendered` is the zones value the handlers of the last
\* render closed over; no fetch is running.
PortfolioViewMounted ==
    [zones |-> << >>, rendered |-> << >>, selectedZoneId |-> "null",
     fetches |-> << >>, settled |-> << >>, added |-> 0]

\* No view has been used and calculateFactorScores has not been called twice.
ViewsIdle ==
    /\ scorerCalls = << >>
    /\ reportsView = ReportsViewMounted
    /\ portfolioView = PortfolioViewMounted

-----------------------------------------------------------------------------
(* An assessment: Index.runClimateAssessment and the OfficersView report *)

Init ==
    /\ input \in Inputs
    /\ random \in [1 .. 4 -> RandomDraws]
    /\ report = null
    /\ officerReport = null
    /\ riskCall = NoRiskCall
    /\ lendCall = NoLendCall
    /\ regionCalls = << >>
    /\ factorCall = NoFactorCall
    /\ projectionCall = NoProjectionCall
    /\ ViewsIdle

\* handleAssessment: setReport(await runClimateAssessment(input)).
runClimateAssessment ==
    /\ report = null
    /\ LET factors == calculateFactorScores(input.latitude, input.longitude,
                                            input.property_type, random)
           score   == Min(100, Max(0, roundedSum(factors)))
       IN  report' = assemble(input, factors, score)
    /\ UNCHANGED <<input, random, officerReport, riskCall, lendCall,
                   regionCalls, factorCall, projectionCall,
                   scorerCalls, reportsView, portfolioView>>

\* OfficersView: the useMemo that builds the report of the active application.
OfficersViewReport ==
    /\ officerReport = null
    /\ LET factors == calculateFactorScores(input.latitude, input.longitude,
                                            input.property_type, random)
           score   == roundedSum(factors)
       IN  officerReport' = assemble(input, factors, score)
    /\ UNCHANGED <<input, random, report, riskCall, lendCall,
                   regionCalls, factorCall, projectionCall,
                   scorerCalls, reportsView, portfolioView>>

Next == runClimateAssessment \/ OfficersViewReport

Spec == Init /\ [][Next]_vars

-----------------------------------------------------------------------------
(* classifyRisk called on its own *)

\* Every tenth from -ScoreMargin to 100 + ScoreMargin.
ClassifyScores == (0 - ScoreMargin * 10) .. ((100 + ScoreMargin) * 10)

ClassifyInit ==
    /\ riskCall \in {[score |-> s, called |-> FALSE, result |-> "Low"] : s \in ClassifyScores}
    /\ input = NoInput
    /\ random = NoRandom
    /\ report = null
    /\ officerReport = null
    /\ lendCall = NoLendCall
    /\ regionCalls = << >>
    /\ factorCall = NoFactorCall
    /\ projectionCall = NoProjectionCall
    /\ ViewsIdle

ClassifyCall ==
    /\ ~riskCall.called
    /\ riskCall' = [riskCall EXCEPT !.called = TRUE, !.result = classifyRisk(riskCall.score)]
    /\ UNCHANGED <<input, random, report, officerReport, lendCall,
                   regionCalls, factorCall, projectionCall,
                   scorerCalls, reportsView, portfolioView>>

ClassifySpec == ClassifyInit /\ [][ClassifyCall]_vars

-----------------------------------------------------------------------------
(* getRegionProfile called on its own *)

RegionMargin == 1
MaxCalls == 3

\* The nine boxes in the order getRegionProfile tests them; lngMax is empty
\* where the test has no upper limit on lng.
Box(name, lngMin, lngMax, latMin, latMax) ==
    [name |-> name, lngMin |-> lngMin, lngMax |-> lngMax, latMin |-> latMin, latMax |-> latMax]

Boxes ==
    << Box("Chennai Metropolitan Region", 7900, {8050}, 800, 1300),
       Box("Mumbai Metropolitan Area", 7200, {7350}, 1800, 1950),
       Box("Kolkata Urban Agglomeration", 8800, {8900}, 2200, 2300),
       Box("Thiruvananthapuram District", 7600, {7750}, 800, 900),
       Box("Indo-Gangetic Plain", 7600, {8800}, 2400, 3000),
       Box("Rajasthan Arid Zone", 6900, {7700}, 2400, 3000),
       Box("Deccan Plateau Region", 7400, {8000}, 1400, 2200),
       Box("Northeast India", 8900, {}, 2300, 3000),
       Box("Gujarat Coastal Zone", 6800, {7500}, 2000, 2400) >>

\* AssessmentForm: min and max of the latitude and longitude inputs.
BoundingBox == [latMin |-> 600, latMax |-> 3700, lngMin |-> 6800, lngMax |-> 9800]

NearEdges(edges) == {e + d : e \in edges, d \in (0 - RegionMargin) .. RegionMargin}

\* Every edge of a box and of the bounding box, the values next to it, and
\* values far outside.
RegionLatitudes ==
    NearEdges({Boxes[k].latMin : k \in DOMAIN Boxes} \cup {Boxes[k].latMax : k \in DOMAIN Boxes}
              \cup {BoundingBox.latMin, BoundingBox.latMax})
    \cup {-9000, 0, 9000}

RegionLongitudes ==
    NearEdges({Boxes[k].lngMin : k \in DOMAIN Boxes}
              \cup UNION {Boxes[k].lngMax : k \in DOMAIN Boxes}
              \cup {BoundingBox.lngMin, BoundingBox.lngMax})
    \cup {-18000, 0, 12000, 18000}

RegionCoordinates ==
    (RegionLatitudes \X RegionLongitudes) \cup {<<1297, 7759>>, <<1905, 7283>>}

RegionCallOf(c) ==
    [latitude |-> c[1], longitude |-> c[2], result |-> getRegionProfile(c[1], c[2])]

RegionInit ==
    /\ regionCalls = << >>
    /\ input = NoInput
    /\ random = NoRandom
    /\ report = null
    /\ officerReport = null
    /\ riskCall = NoRiskCall
    /\ lendCall = NoLendCall
    /\ factorCall = NoFactorCall
    /\ projectionCall = NoProjectionCall
    /\ ViewsIdle

\* One call of getRegionProfile.
RegionCall ==
    /\ regionCalls = << >>
    /\ \E c \in RegionCoordinates : regionCalls' = << RegionCallOf(c) >>
    /\ UNCHANGED <<input, random, report, officerReport, riskCall, lendCall,
                   factorCall, projectionCall,
                   scorerCalls, reportsView, portfolioView>>

RegionSpec == RegionInit /\ [][RegionCall]_vars

\* Calls of getRegionProfile one after another, in any order.
ResolverCoordinates ==
    {<<1905, 7283>>, <<2400, 7500>>, <<1297, 7759>>, <<2500, 12000>>, <<2300, 8900>>}

ResolverCall ==
    /\ Len(regionCalls) < MaxCalls
    /\ \E c \in ResolverCoordinates : regionCalls' = Append(regionCalls, RegionCallOf(c))
    /\ UNCHANGED <<input, random, report, officerReport, riskCall, lendCall,
                   factorCall, projectionCall,
                   scorerCalls, reportsView, portfolioView>>

ResolverSpec == RegionInit /\ [][ResolverCall]_vars

-----------------------------------------------------------------------------
(* calculateFactorScores called on its own *)

\* propertyType is a string: the tags of PropertyTypes, the empty string and
\* names of inherited members.
FactorPropertyTypes == PropertyTypes \cup ObjectPrototypeMembers \cup {""}

FactorInit ==
    /\ factorCall \in {[latitude |-> c[1], longitude |-> c[2], propertyType |-> p,
                        random |-> rnd, called |-> FALSE, result |-> << >>] :
                          c \in Coordinates, p \in FactorPropertyTypes,
                          rnd \in [1 .. 4 -> RandomDraws]}
    /\ input = NoInput
    /\ random = NoRandom
    /\ report = null
    /\ officerReport = null
    /\ riskCall = NoRiskCall
    /\ lendCall = NoLendCall
    /\ regionCalls = << >>
    /\ projectionCall = NoProjectionCall
    /\ ViewsIdle

FactorCall ==
    /\ ~factorCall.called
    /\ factorCall' = [factorCall EXCEPT !.called = TRUE,
                         !.result = calculateFactorScores(factorCall.latitude,
                                        factorCall.longitude, factorCall.propertyType,
                                        factorCall.random)]
    /\ UNCHANGED <<input, random, report, officerReport, riskCall, lendCall,
                   regionCalls, projectionCall,
                   scorerCalls, reportsView, portfolioView>>

FactorSpec == FactorInit /\ [][FactorCall]_vars

-----------------------------------------------------------------------------
(* generateProjections called on its own *)

ProjectionSteps == 4

\* Sub-scores from 0 to 100 in ProjectionSteps steps.
ProjectionSubScores == {(k * 100) \div ProjectionSteps : k \in 0 .. ProjectionSteps}

\* Values of new Date().getFullYear().
ProjectionYears == {1999, 2026}

FourFactors(f, s, h, w) ==
    << Factor("Flood Probability", f, weights.flood),
       Factor("Sea-Level Rise Exposure", s, weights.sea),
       Factor("Heat Stress Index", h, weights.heat),
       Factor("Water Scarcity Projection", w, weights.water) >>

\* Results of calculateFactorScores, the four noise draws being equal.
ScoredFactors ==
    {calculateFactorScores(c[1], c[2], p, [k \in 1 .. 4 |-> u]) :
        c \in Coordinates, p \in PropertyTypes, u \in RandomDraws}

\* Results of calculateFactorScores, lists shaped like them, and lists that
\* are empty, lack a factor, hold a factor twice or hold the factors in
\* another order.
ProjectionFactors ==
    ScoredFactors \cup
    {FourFactors(f, s, h, w) : f \in ProjectionSubScores, s \in ProjectionSubScores,
                               h \in ProjectionSubScores, w \in ProjectionSubScores}
    \cup {FourFactors(b, b, b, b) : b \in 0 .. 100}
    \cup { << >>,
           << Factor("Heat Stress Index", 30, weights.heat) >>,
           << Factor("Water Scarcity Projection", 81, weights.water),
              Factor("Flood Probability", 12, weights.flood),
              Factor("Flood Probability", 90, weights.flood) >>,
           FourFactors(10, 20, 30, 40) \o << Factor("Sea-Level Rise Exposure", 99, weights.sea) >> }

ProjectionInit ==
    /\ projectionCall \in {[factors |-> fs, baseYear |-> y, called |-> FALSE, result |-> << >>] :
                             fs \in ProjectionFactors, y \in ProjectionYears}
    /\ input = NoInput
    /\ random = NoRandom
    /\ report = null
    /\ officerReport = null
    /\ riskCall = NoRiskCall
    /\ lendCall = NoLendCall
    /\ regionCalls = << >>
    /\ factorCall = NoFactorCall
    /\ ViewsIdle

ProjectionCall ==
    /\ ~projectionCall.called
    /\ projectionCall' = [projectionCall EXCEPT !.called = TRUE,
                             !.result = generateProjections(projectionCall.factors,
                                                            projectionCall.baseYear)]
    /\ UNCHANGED <<input, random, report, officerReport, riskCall, lendCall,
                   regionCalls, factorCall,
                   scorerCalls, reportsView, portfolioView>>

ProjectionSpec == ProjectionInit /\ [][ProjectionCall]_vars

-----------------------------------------------------------------------------
(* generateLendingAdjustments called on its own *)

Near(thresholds) == {t + d : t \in thresholds, d \in (0 - RuleMargin) .. RuleMargin}

\* Scores in tenths around 25, 40, 50 and 75, and 0, 82, 100.
LendScores == Near({250, 400, 500, 750}) \cup {0, 820, 1000}

\* Sub-scores around 40, 50, 65 and 70, and 0, 60, 100.
LendSubScores == Near({40, 50, 65, 70}) \cup {0, 60, 100}

\* "Agricultural" differs from the tag "agricultural" in case only.
LendPropertyTypes == {"residential", "agricultural", "warehouse", "Agricultural"}

\* Factor lists as calculateFactorScores shapes them, and the empty list.
LendFactors ==
    {<< Factor("Flood Probability", f, weights.flood),
        Factor("Sea-Level Rise Exposure", s, weights.sea),
        Factor("Heat Stress Index", 50, weights.heat),
        Factor("Water Scarcity Projection", 50, weights.water) >> :
        f \in LendSubScores, s \in LendSubScores}
    \cup {<< >>}

LendInit ==
    /\ lendCall \in {[score |-> sc, classification |-> c, propertyType |-> p,
                      factors |-> fs, called |-> FALSE, result |-> << >>] :
                        sc \in LendScores, c \in Classifications,
                        p \in LendPropertyTypes, fs \in LendFactors}
    /\ input = NoInput
    /\ random = NoRandom
    /\ report = null
    /\ officerReport = null
    /\ riskCall = NoRiskCall
    /\ regionCalls = << >>
    /\ factorCall = NoFactorCall
    /\ projectionCall = NoProjectionCall
    /\ ViewsIdle

LendCall ==
    /\ ~lendCall.called
    /\ lendCall' = [lendCall EXCEPT !.called = TRUE,
                       !.result = generateLendingAdjustments(lendCall.score,
                                      lendCall.classification, lendCall.propertyType,
                                      lendCall.factors)]
    /\ UNCHANGED <<input, random, report, officerReport, riskCall,
                   regionCalls, factorCall, projectionCall,
                   scorerCalls, reportsView, portfolioView>>

LendSpec == LendInit /\ [][LendCall]_vars

-----------------------------------------------------------------------------
(* Properties *)

\* The reports assembled so far.
Reports == {r \in {report, officerReport} : r # null}

\* The sum of the four weighted scores as decimal numbers, in tenths.
DecimalSum(factors) ==
    factors[1].weighted_score + factors[2].weighted_score
    + factors[3].weighted_score + factors[4].weighted_score

\* C1: classifyRisk is total with strict boundaries: s < 25 Low, 25 <= s < 50
\* Moderate, 50 <= s < 75 High, s >= 75 Severe; 24.9 Low, 25 Moderate, 49.9
\* Moderate, 50 High, 74.9 High, 75 Severe.
C1_ClassifyBoundaries ==
    riskCall.called =>
        LET s == riskCall.score
            r == riskCall.result
        IN  /\ r \in Classifications
            /\ (s < 250) = (r = "Low")
            /\ (250 <= s /\ s < 500) = (r = "Moderate")
            /\ (500 <= s /\ s < 750) = (r = "High")
            /\ (s >= 750) = (r = "Severe")
            /\ (s = 249 => r = "Low") /\ (s = 250 => r = "Moderate")
            /\ (s = 499 => r = "Moderate") /\ (s = 500 => r = "High")
            /\ (s = 749 => r = "High") /\ (s = 750 => r = "Severe")

C1_Witness == riskCall.called /\ riskCall.score = 250 /\ riskCall.result = "Moderate"

\* C2: calculateFactorScores returns exactly four entries in the order flood,
\* sea-level, heat, water, with weights 0.35, 0.25, 0.25, 0.15, which sum to 1.0.
C2_FourFactorsFixedWeights ==
    \A r \in Reports :
        LET f == r.factors
        IN  /\ Len(f) = 4
            /\ <<f[1].factor, f[2].factor, f[3].factor, f[4].factor>>
                 = <<"Flood Probability", "Sea-Level Rise Exposure",
                     "Heat Stress Index", "Water Scarcity Projection">>
            /\ <<f[1].weight, f[2].weight, f[3].weight, f[4].weight>> = <<35, 25, 25, 15>>
            /\ f[1].weight + f[2].weight + f[3].weight + f[4].weight = 100

C2_Witness ==
    /\ report # null
    /\ report.property_type = "warehouse"
    /\ report.region = "Interior India"
    /\ Len(report.factors) = 4

\* C3: every hazard sub-score is an integer in [0,100], also where base +
\* modifier + noise leaves that range (Rajasthan heat 95 with agricultural +15).
C3_SubScoresInRange ==
    \A r \in Reports : \A i \in DOMAIN r.factors : r.factors[i].score \in 0 .. 100

C3_Witness ==
    /\ report # null
    /\ report.region = "Northwestern India"
    /\ report.property_type = "agricultural"
    /\ getRegionProfile(input.latitude, input.longitude).heat_base
         + modifiersFor(input.property_type).heat > 100
    /\ report.factors[3].score = 100

Band(score) ==
    IF score < 25 THEN "Low" ELSE IF score < 50 THEN "Moderate"
    ELSE IF score < 75 THEN "High" ELSE "Severe"

\* The band of a value in tenths.
BandOfTenths(v) ==
    IF v < 250 THEN "Low" ELSE IF v < 500 THEN "Moderate"
    ELSE IF v < 750 THEN "High" ELSE "Severe"

FloodArg == IF lendCall.factors = << >> THEN 0 ELSE lendCall.factors[1].score
SeaArg == IF lendCall.factors = << >> THEN 0 ELSE lendCall.factors[2].score

IsInterest(a) == a.type = "interest_rate"
IsCoastal(a) == a.type = "insurance" /\ a.title = "Coastal Hazard Insurance"
IsFlood(a) == a.type = "insurance" /\ a.title # "Coastal Hazard Insurance"

\* The rule (1..7) an entry comes from, by its type and title; 0 for any other entry.
RuleOf(a) ==
    IF a.type = "interest_rate" THEN 1
    ELSE IF a.type = "insurance"
              /\ a.title \in {"Mandatory Flood Insurance", "Recommended Flood Cover"} THEN 2
    ELSE IF a.type = "insurance" /\ a.title = "Coastal Hazard Insurance" THEN 3
    ELSE IF a.type = "loan_cap" THEN 4
    ELSE IF a.type = "enhanced_due_diligence" THEN 5
    ELSE IF a.type = "risk_warning" /\ a.title = "Standard Lending Terms Applicable" THEN 6
    ELSE IF a.type = "risk_warning" /\ a.title = "Kharif/Rabi Season Risk" THEN 7
    ELSE 0

\* The call of the C6 fixture: score 82, Severe, residential, flood 70, sea 60.
FixtureCall ==
    /\ lendCall.called
    /\ lendCall.score = 820
    /\ lendCall.classification = "Severe"
    /\ lendCall.propertyType = "residential"
    /\ lendCall.factors # << >>
    /\ FloodArg = 70
    /\ SeaArg = 60

\* The four entries of the fixture other than the coastal one.
FixtureOtherEntries(a) ==
    /\ Len(a) = 5
    /\ a[1].type = "interest_rate"
    /\ a[1].value = <<"+", 2, ".", 5, "% p.a.">>
    /\ a[1].severity = "critical"
    /\ a[2].type = "insurance"
    /\ a[2].title = "Mandatory Flood Insurance"
    /\ a[2].value = "Mandatory"
    /\ a[2].severity = "critical"
    /\ a[3].type = "insurance"
    /\ a[3].title = "Coastal Hazard Insurance"
    /\ a[4].type = "loan_cap"
    /\ a[4].value = <<"Max ", 60, "% LTV">>
    /\ a[4].severity = "critical"
    /\ a[5].type = "enhanced_due_diligence"
    /\ a[5].value = "Required"
    /\ a[5].severity = "critical"

\* C6 as stated: score 82, Severe, residential, flood 70, sea 60 gives exactly
\* five entries: interest_rate +2.5% p.a. critical, mandatory flood insurance
\* critical, coastal hazard insurance critical, loan_cap max 60% LTV critical,
\* enhanced_due_diligence required critical, in that order.
C6_FixtureCoastalCritical ==
    FixtureCall =>
        /\ FixtureOtherEntries(lendCall.result)
        /\ lendCall.result[3].severity = "critical"

\* C6, amended: the same five entries in the same order, the coastal hazard
\* insurance with severity warning (sea 60 is not above 70).
C6_FixtureCoastalWarning ==
    FixtureCall =>
        /\ FixtureOtherEntries(lendCall.result)
        /\ lendCall.result[3].severity = "warning"

C6_Witness == FixtureCall /\ Len(lendCall.result) = 5

\* C7: the returned list is a subsequence of the rule order interest-rate
\* premium, flood insurance, coastal insurance, loan-to-value cap, enhanced due
\* diligence, low-risk notice, agricultural note: each rule gives at most one
\* entry and no entry comes before an entry of an earlier rule.
C7_RuleOrderKept ==
    lendCall.called =>
        LET a == lendCall.result
        IN  /\ \A i \in DOMAIN a : RuleOf(a[i]) \in 1 .. 7
            /\ \A i, j \in DOMAIN a : i < j => RuleOf(a[i]) < RuleOf(a[j])

C7_Witness ==
    /\ lendCall.called
    /\ Len(lendCall.result) = 6
    /\ RuleOf(lendCall.result[2]) = 2
    /\ RuleOf(lendCall.result[6]) = 7

\* C8: rateAdj is 0 below 25, 0.5 in [25,50), 1.5 in [50,75), 2.5 from 75; an
\* interest_rate entry is emitted iff rateAdj > 0, with value "+<rateAdj>% p.a."
\* and severity critical for Severe, warning for High, info otherwise.
C8_InterestRatePremium ==
    lendCall.called =>
        LET s == lendCall.score
            c == lendCall.classification
            e == SelectSeq(lendCall.result, IsInterest)
        IN  /\ s < 250 => e = << >>
            /\ s >= 250 => Len(e) = 1
            /\ (250 <= s /\ s < 500) => e[1].value = <<"+", 0, ".", 5, "% p.a.">>
            /\ (500 <= s /\ s < 750) => e[1].value = <<"+", 1, ".", 5, "% p.a.">>
            /\ s >= 750 => e[1].value = <<"+", 2, ".", 5, "% p.a.">>
            /\ s >= 250 =>
                 e[1].severity = (IF c = "Severe" THEN "critical"
                                  ELSE IF c = "High" THEN "warning" ELSE "info")

C8_Witness ==
    /\ lendCall.called
    /\ lendCall.score = 250
    /\ lendCall.classification = "High"
    /\ lendCall.result[1].type = "interest_rate"
    /\ lendCall.result[1].value = <<"+", 0, ".", 5, "% p.a.">>
    /\ lendCall.result[1].severity = "warning"

\* C9: a flood insurance entry is emitted iff the flood sub-score is > 40:
\* Mandatory and critical above 65, Recommended and warning in (40, 65].
C9_FloodInsurance ==
    lendCall.called =>
        LET f == FloodArg
            e == SelectSeq(lendCall.result, IsFlood)
        IN  /\ f <= 40 => e = << >>
            /\ f > 40 => Len(e) = 1
            /\ f > 65 => /\ e[1].title = "Mandatory Flood Insurance"
                         /\ e[1].value = "Mandatory"
                         /\ e[1].severity = "critical"
            /\ (40 < f /\ f <= 65) => /\ e[1].title = "Recommended Flood Cover"
                                      /\ e[1].value = "Recommended"
                                      /\ e[1].severity = "warning"

C9_Witness ==
    /\ lendCall.called
    /\ FloodArg = 65
    /\ \E i \in DOMAIN lendCall.result :
          IsFlood(lendCall.result[i]) /\ lendCall.result[i].value = "Recommended"

\* C10: a coastal hazard insurance entry is emitted iff the sea-level sub-score
\* is > 50: critical above 70, warning in (50, 70].
C10_CoastalInsurance ==
    lendCall.called =>
        LET v == SeaArg
            e == SelectSeq(lendCall.result, IsCoastal)
        IN  /\ v <= 50 => e = << >>
            /\ v > 50 => Len(e) = 1 /\ e[1].value = "Required"
            /\ v > 70 => e[1].severity = "critical"
            /\ (50 < v /\ v <= 70) => e[1].severity = "warning"

C10_Witness ==
    /\ lendCall.called
    /\ SeaArg = 70
    /\ \E i \in DOMAIN lendCall.result :
          IsCoastal(lendCall.result[i]) /\ lendCall.result[i].severity = "warning"

IsLoanCap(a) == a.type = "loan_cap"
IsDueDiligence(a) == a.type = "enhanced_due_diligence"
IsSeasonNote(a) == a.title = "Kharif/Rabi Season Risk"

\* C11: a loan_cap entry is emitted iff the classification is High or Severe:
\* 70% with severity warning for High, 60% with severity critical for Severe,
\* and none for Low or Moderate whatever the score.
C11_LoanToValueCap ==
    lendCall.called =>
        LET c == lendCall.classification
            e == SelectSeq(lendCall.result, IsLoanCap)
        IN  /\ c \in {"Low", "Moderate"} => e = << >>
            /\ c \in {"High", "Severe"} => Len(e) = 1
            /\ c = "High" => /\ e[1].value = <<"Max ", 70, "% LTV">>
                             /\ e[1].severity = "warning"
            /\ c = "Severe" => /\ e[1].value = <<"Max ", 60, "% LTV">>
                               /\ e[1].severity = "critical"

C11_Witness ==
    /\ lendCall.called
    /\ lendCall.classification = "High"
    /\ lendCall.score = 0
    /\ \E i \in DOMAIN lendCall.result :
          /\ IsLoanCap(lendCall.result[i])
          /\ lendCall.result[i].value = <<"Max ", 70, "% LTV">>

\* C12: an enhanced_due_diligence entry with severity critical is emitted iff
\* the classification is Severe, whatever the score, property type and
\* sub-scores; a 60% loan_cap entry comes immediately before it.
C12_EnhancedDueDiligence ==
    lendCall.called =>
        LET a == lendCall.result
            e == SelectSeq(a, IsDueDiligence)
        IN  /\ lendCall.classification # "Severe" => e = << >>
            /\ lendCall.classification = "Severe" =>
                   Len(e) = 1 /\ e[1].severity = "critical" /\ e[1].value = "Required"
            /\ \A i \in DOMAIN a :
                   IsDueDiligence(a[i]) =>
                       /\ i > 1
                       /\ IsLoanCap(a[i - 1])
                       /\ a[i - 1].value = <<"Max ", 60, "% LTV">>

C12_Witness ==
    /\ lendCall.called
    /\ lendCall.classification = "Severe"
    /\ lendCall.score = 0
    /\ lendCall.factors = << >>
    /\ Len(lendCall.result) = 2
    /\ IsDueDiligence(lendCall.result[2])

\* C13: the agricultural note, a risk_warning of severity warning, is emitted
\* as the last entry iff propertyType is exactly "agricultural" and score > 40.
C13_AgriculturalNote ==
    lendCall.called =>
        LET a == lendCall.result
            e == SelectSeq(a, IsSeasonNote)
        IN  IF lendCall.propertyType = "agricultural" /\ lendCall.score > 400
            THEN /\ Len(e) = 1
                 /\ IsSeasonNote(a[Len(a)])
                 /\ a[Len(a)].type = "risk_warning"
                 /\ a[Len(a)].severity = "warning"
            ELSE e = << >>

C13_Witness ==
    /\ lendCall.called
    /\ lendCall.propertyType = "agricultural"
    /\ lendCall.score = 401
    /\ lendCall.classification = "Low"
    /\ IsSeasonNote(lendCall.result[Len(lendCall.result)])

InBox(b, lat, lng) ==
    /\ lng >= b.lngMin /\ (\A m \in b.lngMax : lng <= m)
    /\ lat >= b.latMin /\ lat <= b.latMax

OnEdge(b, lat, lng) ==
    /\ InBox(b, lat, lng)
    /\ lat = b.latMin \/ lat = b.latMax \/ lng = b.lngMin \/ lng \in b.lngMax

BoxesOf(lat, lng) == {k \in DOMAIN Boxes : InBox(Boxes[k], lat, lng)}

FirstBoxOf(lat, lng) ==
    CHOOSE k \in BoxesOf(lat, lng) : \A m \in BoxesOf(lat, lng) : k <= m

OutOfRange(lat, lng) ==
    \/ lat < BoundingBox.latMin \/ lat > BoundingBox.latMax
    \/ lng < BoundingBox.lngMin \/ lng > BoundingBox.lngMax

IsDefaultProfile(p) ==
    /\ p.region = "Interior India"
    /\ p.flood_base = 38 /\ p.sea_level_base = 12
    /\ p.heat_base = 68 /\ p.water_scarcity_base = 55

\* C14: every (lat, lng) outside the bounding box (lat outside [6,37] or lng
\* outside [68,98]) resolves to the default "Interior India" profile.
C14_OutOfRangeIsDefault ==
    \A i \in DOMAIN regionCalls :
        OutOfRange(regionCalls[i].latitude, regionCalls[i].longitude) =>
            IsDefaultProfile(regionCalls[i].result)

\* C15: the boxes are tested in the order Tamil Nadu coast, Mumbai, Kolkata
\* delta, Kerala coast, Indo-Gangetic plain, Rajasthan, Deccan, Northeast,
\* Gujarat, and a point in several boxes gets the first of them.
C15_FirstMatchingBoxWins ==
    \A i \in DOMAIN regionCalls :
        LET lat == regionCalls[i].latitude
            lng == regionCalls[i].longitude
            name == regionCalls[i].result.name
        IN  /\ BoxesOf(lat, lng) # {} => name = << Boxes[FirstBoxOf(lat, lng)].name >>
            /\ lat >= 2400 /\ lat <= 3000 /\ lng >= 7600 /\ lng <= 7700
                   => name = <<"Indo-Gangetic Plain">>
            /\ lat >= 2000 /\ lat <= 2200 /\ lng >= 7400 /\ lng <= 7500
                   => name = <<"Deccan Plateau Region">>
            /\ lat = 2400 /\ lng >= 6900 /\ lng <= 7500
                   => name = <<"Rajasthan Arid Zone">>
            /\ lat = 2300 /\ lng = 8900
                   => name = <<"Kolkata Urban Agglomeration">>

C15_Witness ==
    \E i \in DOMAIN regionCalls :
        /\ regionCalls[i].latitude = 2200 /\ regionCalls[i].longitude = 7500
        /\ BoxesOf(2200, 7500) = {7, 9}
        /\ regionCalls[i].result.name = <<"Deccan Plateau Region">>

\* C16: a point in no box, such as (12.97, 77.59), resolves to the default
\* profile (flood 38, sea 12, heat 68, water 55); a point on an edge of a box
\* and in no earlier box resolves to that box.
C16_DefaultAndInclusiveEdges ==
    \A i \in DOMAIN regionCalls :
        LET lat == regionCalls[i].latitude
            lng == regionCalls[i].longitude
            p   == regionCalls[i].result
        IN  /\ BoxesOf(lat, lng) = {} =>
                   IsDefaultProfile(p) /\ p.name = <<"Location", lat, lng>>
            /\ lat = 1297 /\ lng = 7759 => IsDefaultProfile(p)
            /\ \A k \in DOMAIN Boxes :
                   /\ OnEdge(Boxes[k], lat, lng)
                   /\ \A m \in 1 .. (k - 1) : ~InBox(Boxes[m], lat, lng)
                   => p.name = << Boxes[k].name >> /\ ~IsDefaultProfile(p)

C16_Witness ==
    \E i \in DOMAIN regionCalls :
        /\ regionCalls[i].latitude = 1297 /\ regionCalls[i].longitude = 7759
        /\ IsDefaultProfile(regionCalls[i].result)

\* C17: every call of getRegionProfile(19.05, 72.83), whatever calls come
\* before or between, returns flood 78, sea 74, heat 65, water 45, and two
\* calls with equal (lat, lng) return equal profiles.
C17_ResolverStateless ==
    /\ \A i \in DOMAIN regionCalls :
           regionCalls[i].latitude = 1905 /\ regionCalls[i].longitude = 7283 =>
               /\ regionCalls[i].result.flood_base = 78
               /\ regionCalls[i].result.sea_level_base = 74
               /\ regionCalls[i].result.heat_base = 65
               /\ regionCalls[i].result.water_scarcity_base = 45
    /\ \A i, j \in DOMAIN regionCalls :
           /\ regionCalls[i].latitude = regionCalls[j].latitude
           /\ regionCalls[i].longitude = regionCalls[j].longitude
           => regionCalls[i].result = regionCalls[j].result

C17_Witness ==
    /\ Len(regionCalls) = 3
    /\ regionCalls[1].latitude = 1905 /\ regionCalls[1].longitude = 7283
    /\ regionCalls[2].latitude = 2500 /\ regionCalls[2].longitude = 12000
    /\ regionCalls[3].latitude = 1905 /\ regionCalls[3].longitude = 7283
    /\ regionCalls[3].result = regionCalls[1].result
    /\ regionCalls[3].result.flood_base = 78

\* C18: for every property-type tag other than residential, commercial,
\* industrial, agricultural and mixed_use, calculateFactorScores uses the
\* residential modifiers (flood 0, heat +5, sea 0, water 0): its four scores
\* are those of "residential" for equal coordinates and noise.
C18_UnknownTagIsResidential ==
    (factorCall.called /\ factorCall.propertyType \notin DOMAIN PROPERTY_MODIFIERS) =>
        LET profile == getRegionProfile(factorCall.latitude, factorCall.longitude)
            rnd     == factorCall.random
            r       == factorCall.result
            same    == calculateFactorScores(factorCall.latitude, factorCall.longitude,
                                             "residential", rnd)
        IN  /\ Len(r) = 4
            /\ r[1].score = clamp((profile.flood_base + 0) * 10 + noise(rnd[1]))
            /\ r[2].score = clamp((profile.sea_level_base + 0) * 10 + noise(rnd[2]))
            /\ r[3].score = clamp((profile.heat_base + 5) * 10 + noise(rnd[3]))
            /\ r[4].score = clamp((profile.water_scarcity_base + 0) * 10 + noise(rnd[4]))
            /\ \A k \in 1 .. 4 : r[k].score = same[k].score

\* The four hazards: the factor that gives the base, the field of the point.
Hazards == {"flood", "heat", "sea", "water"}

HazardFactor ==
    [flood |-> "Flood Probability", heat |-> "Heat Stress Index",
     sea |-> "Sea-Level Rise Exposure", water |-> "Water Scarcity Projection"]

BaseOf(h) == scoreOf(projectionCall.factors, HazardFactor[h], 50)

ValueOf(point, h) ==
    CASE h = "flood" -> point.flood_risk
      [] h = "heat"  -> point.heat_stress
      [] h = "sea"   -> point.sea_level_rise
      [] h = "water" -> point.water_scarcity

\* min(100, base + t * rate1 + t * t * rate2) with t = i / 10, in hundredths,
\* for the rates the claim gives.
RealValue(h, base, i) ==
    LET rate == [flood |-> <<18, 7>>, heat |-> <<15, 9>>,
                 sea |-> <<22, 5>>, water |-> <<12, 6>>][h]
    IN  Min(10000, base * 100 + i * rate[1] * 10 + i * i * rate[2])

\* min(100, base + rate1 + rate2), in tenths.
FinalValue(h, base) ==
    Min(1000, (base + [flood |-> 25, heat |-> 24, sea |-> 27, water |-> 18][h]) * 10)

\* C19: generateProjections returns exactly 11 points for any factor list,
\* and point i has year = currentYear + 2 * i.
C19_ElevenPointsEveryTwoYears ==
    projectionCall.called =>
        /\ Len(projectionCall.result) = 11
        /\ \A n \in 1 .. 11 :
               projectionCall.result[n].year = projectionCall.baseYear + 2 * (n - 1)

C19_Witness ==
    /\ projectionCall.called
    /\ projectionCall.factors = << >>
    /\ projectionCall.baseYear = 2026
    /\ Len(projectionCall.result) = 11
    /\ projectionCall.result[11].year = 2046

\* C20 as stated: every projected value is min(100, base + t * rate1 +
\* t * t * rate2) rounded to one decimal, a half going up; point 0 is the
\* base and point 10 is min(100, base + 25 / 24 / 27 / 18).
C20_ValueIsRound1OfFormula ==
    projectionCall.called =>
        \A h \in Hazards :
            /\ \A i \in 0 .. 10 :
                   ValueOf(projectionCall.result[i + 1], h)
                       = (RealValue(h, BaseOf(h), i) + 5) \div 10
            /\ ValueOf(projectionCall.result[1], h) = BaseOf(h) * 10
            /\ ValueOf(projectionCall.result[11], h) = FinalValue(h, BaseOf(h))

\* C20: every projected value is a tenth nearest to min(100, base + t * rate1
\* + t * t * rate2): the nearest one, or either neighbour where the formula's
\* value is exactly halfway between two tenths; point 0 is the base and
\* point 10 is min(100, base + 25 / 24 / 27 / 18).
C20_ValueIsNearestTenth ==
    projectionCall.called =>
        \A h \in Hazards :
            /\ \A i \in 0 .. 10 :
                   LET real  == RealValue(h, BaseOf(h), i)
                       value == ValueOf(projectionCall.result[i + 1], h)
                   IN  IF real % 10 = 5
                       THEN value \in {real \div 10, real \div 10 + 1}
                       ELSE value = (real + 5) \div 10
            /\ ValueOf(projectionCall.result[1], h) = BaseOf(h) * 10
            /\ ValueOf(projectionCall.result[11], h) = FinalValue(h, BaseOf(h))

C20_Witness ==
    /\ projectionCall.called
    /\ BaseOf("sea") = 60
    /\ RealValue("sea", 60, 3) = 6705
    /\ projectionCall.result[4].sea_level_rise = 670
    /\ projectionCall.result[11].sea_level_rise = 870

\* C21: with sub-scores in 0..100, each of the four projected series is
\* non-decreasing over the 11 points, never exceeds 100, and stays at 100
\* from the first point where it reaches 100.
C21_SeriesMonotoneSaturating ==
    (projectionCall.called /\ \A h \in Hazards : BaseOf(h) \in 0 .. 100) =>
        \A h \in Hazards :
            /\ \A n \in 1 .. 11 : ValueOf(projectionCall.result[n], h) <= 1000
            /\ \A n \in 1 .. 10 :
                   ValueOf(projectionCall.result[n], h)
                       <= ValueOf(projectionCall.result[n + 1], h)
            /\ \A n \in 1 .. 11 : \A m \in n .. 11 :
                   ValueOf(projectionCall.result[n], h) = 1000
                       => ValueOf(projectionCall.result[m], h) = 1000

C21_Witness ==
    /\ projectionCall.called
    /\ BaseOf("flood") = 90
    /\ projectionCall.result[5].flood_risk = 983
    /\ projectionCall.result[6].flood_risk = 1000
    /\ projectionCall.result[11].flood_risk = 1000
    /\ projectionCall.result[1].water_scarcity < projectionCall.result[2].water_scarcity

\* x <= y for limb triples.
LimbLeq(x, y) ==
    \/ x[3] < y[3]
    \/ x[3] = y[3] /\ x[2] < y[2]
    \/ x[3] = y[3] /\ x[2] = y[2] /\ x[1] <= y[1]

\* x + y exactly, for limb triples.
ExactSum(x, y) == Carry(<<x[1] + y[1], x[2] + y[2], x[3] + y[3]>>)

\* The double 0.2 plus 2^-40, in units of 2^-56.
SumTolerance == ExactSum(NearestDouble(2, 10), <<2^16, 0, 0>>)

\* The shape of a result of calculateFactorScores.
IsScorerResult(fs) ==
    /\ Len(fs) = 4
    /\ \A k \in 1 .. 4 : fs[k].score \in 0 .. 100
    /\ fs = FourFactors(fs[1].score, fs[2].score, fs[3].score, fs[4].score)

-----------------------------------------------------------------------------
(* calculateFactorScores called twice by one caller *)

\* The draws of one call, all four equal, that a caller could wish to fix.
ScorerDraws == {<<u, u, u, u>> : u \in RandomDraws}

ScorerCoordinates == {<<1905, 7283>>, <<1297, 7759>>}

ScorerPropertyTypes == {"residential", "industrial"}

ScorerInit ==
    /\ scorerCalls = << >>
    /\ input = NoInput
    /\ random = NoRandom
    /\ report = null
    /\ officerReport = null
    /\ riskCall = NoRiskCall
    /\ lendCall = NoLendCall
    /\ regionCalls = << >>
    /\ factorCall = NoFactorCall
    /\ projectionCall = NoProjectionCall
    /\ reportsView = ReportsViewMounted
    /\ portfolioView = PortfolioViewMounted

\* calculateFactorScores(lat, lng, propertyType, source): the function
\* declares three parameters, so a fourth argument `source` (the draws the
\* caller wants used) is dropped; noise() reads Math.random(), whose four
\* values `rnd` are the environment's.
ScorerCall ==
    /\ Len(scorerCalls) < 2
    /\ \E c \in ScorerCoordinates, p \in ScorerPropertyTypes,
          source \in ScorerDraws, rnd \in ScorerDraws :
           scorerCalls' = Append(scorerCalls,
               [latitude |-> c[1], longitude |-> c[2], propertyType |-> p,
                source |-> source, random |-> rnd,
                result |-> calculateFactorScores(c[1], c[2], p, rnd)])
    /\ UNCHANGED <<input, random, report, officerReport, riskCall, lendCall,
                   regionCalls, factorCall, projectionCall, reportsView, portfolioView>>

ScorerSpec == ScorerInit /\ [][ScorerCall]_vars

SameArguments(a, b) ==
    /\ a.latitude = b.latitude
    /\ a.longitude = b.longitude
    /\ a.propertyType = b.propertyType

\* C23: two calls of the scorer with identical (lat, lng, propertyType) and
\* the same injected noise draws return identical factor scores.
C23_InjectedSourceDecides ==
    \A i, j \in 1 .. Len(scorerCalls) :
        (SameArguments(scorerCalls[i], scorerCalls[j])
            /\ scorerCalls[i].source = scorerCalls[j].source)
        => scorerCalls[i].result = scorerCalls[j].result

\* What the code does give: with identical arguments, the values Math.random()
\* returned decide the result.
ScorerResultDecidedByMathRandom ==
    \A i, j \in 1 .. Len(scorerCalls) :
        (SameArguments(scorerCalls[i], scorerCalls[j])
            /\ scorerCalls[i].random = scorerCalls[j].random)
        => scorerCalls[i].result = scorerCalls[j].result

-----------------------------------------------------------------------------
(* The sub-scores and weighted scores of one calculateFactorScores call *)

\* base + modifier of the n-th factor of the call, as the code adds them
\* (flood, sea, heat, water); NaN where the modifier is NaN.
SeedOf(call, n) ==
    LET profile == getRegionProfile(call.latitude, call.longitude)
        mod     == modifiersFor(call.propertyType)
    IN  CASE n = 1 -> noisySum(profile.flood_base, mod.flood, 0)
          [] n = 2 -> noisySum(profile.sea_level_base, mod.sea, 0)
          [] n = 3 -> noisySum(profile.heat_base, mod.heat, 0)
          [] n = 4 -> noisySum(profile.water_scarcity_base, mod.water, 0)

ExactProduct(f) == f.score * f.weight

-----------------------------------------------------------------------------
(* PortfolioView: the risk band of a property score *)

\* classifyByScore(score), score in tenths.
classifyByScore(score) ==
    IF score >= 800 THEN "Severe"
    ELSE IF score >= 600 THEN "High"
    ELSE IF score >= 300 THEN "Moderate"
    ELSE "Low"

\* The scores 0, 1, .., 100, in tenths.
WholeScores == {10 * k : k \in 0 .. 100}

\* C26: the portfolio module's classifyByScore returns the same
\* RiskClassification as classifyRisk for every score in 0..100.
C26_PortfolioBandsAgree ==
    (riskCall.called /\ riskCall.score \in WholeScores)
        => classifyByScore(riskCall.score) = riskCall.result

\* Where the two functions differ: the scores 25..29, 50..59 and 75..79.
PortfolioBandsDifferOnlyBelowItsBoundaries ==
    (riskCall.called /\ riskCall.score \in WholeScores)
        => (classifyByScore(riskCall.score) # riskCall.result
              <=> riskCall.score \in (250 .. 299) \cup (500 .. 599) \cup (750 .. 799))

-----------------------------------------------------------------------------
(* The assessment built on one calculateFactorScores call *)

\* Math.min(100, Math.max(0, Math.round(rawScore))) for the factors of a
\* call; NaN when a weighted score is NaN (Math.round, Math.max and Math.min
\* all return NaN for a NaN argument).
scoreOfFactors(factors) ==
    IF \E n \in DOMAIN factors : factors[n].weighted_score = NaN THEN NaN
    ELSE Min(100, Max(0, roundedSum(factors)))

\* A composite score in the tenths classifyRisk and
\* generateLendingAdjustments are modelled in.
InTenths(score) == IF score = NaN THEN NaN ELSE score * 10

IsStandardTerms(a) ==
    a.type = "risk_warning" /\ a.title = "Standard Lending Terms Applicable"

\* runClimateAssessment's score, classification and lending list for the
\* factors of factorCall.
AssessmentOf(call) ==
    LET score          == scoreOfFactors(call.result)
        classification == classifyRisk(InTenths(score))
    IN  [score |-> score, classification |-> classification,
         adjustments |-> generateLendingAdjustments(InTenths(score), classification,
                             call.propertyType, call.result)]

\* C27: for every coordinate pair, every property type (known or unknown) and
\* every noise draw the composite score is at least 25, the classification is
\* not Low, the lending list starts with the interest_rate premium and holds
\* no "Standard Lending Terms Applicable" notice.
C27_CompositeAtLeast25 ==
    factorCall.called =>
        LET a == AssessmentOf(factorCall)
        IN  /\ a.score # NaN
            /\ a.score >= 25
            /\ a.classification # "Low"
            /\ a.adjustments # << >>
            /\ IsInterest(a.adjustments[1])
            /\ \A n \in DOMAIN a.adjustments : ~IsStandardTerms(a.adjustments[n])

\* What holds for every call: the score is NaN or at least 37, and the
\* lending list starts with the premium and holds no standard-terms notice.
LowUnreachable ==
    factorCall.called =>
        LET a == AssessmentOf(factorCall)
        IN  /\ a.score = NaN \/ a.score >= 37
            /\ a.classification # "Low"
            /\ a.adjustments # << >>
            /\ IsInterest(a.adjustments[1])
            /\ \A n \in DOMAIN a.adjustments : ~IsStandardTerms(a.adjustments[n])

-----------------------------------------------------------------------------
(* The lending list of a score and its own classification *)

Holds(list, Is(_)) == \E n \in DOMAIN list : Is(list[n])

\* C28: whenever classification = classifyRisk(score), the list is not
\* empty, holds the interest_rate premium or the standard-terms notice but
\* never both, and never holds the notice next to a loan_cap or an
\* enhanced_due_diligence entry.
C28_PremiumOrStandardTerms ==
    (lendCall.called /\ lendCall.classification = classifyRisk(lendCall.score)) =>
        /\ lendCall.result # << >>
        /\ Holds(lendCall.result, IsInterest) # Holds(lendCall.result, IsStandardTerms)
        /\ Holds(lendCall.result, IsStandardTerms) =>
               /\ ~Holds(lendCall.result, IsLoanCap)
               /\ ~Holds(lendCall.result, IsDueDiligence)

\* Score 24.9, Low: the notice after a flood entry, no premium.
C28_Witness ==
    /\ lendCall.called
    /\ lendCall.score = 249
    /\ lendCall.classification = classifyRisk(lendCall.score)
    /\ Len(lendCall.result) = 2
    /\ IsFlood(lendCall.result[1])
    /\ IsStandardTerms(lendCall.result[2])

-----------------------------------------------------------------------------
(* ReportsView: handleGenerate, its completion and the reset timers.       *)
(* Time is counted in tenths of a second; a pending timeout holds the time *)
(* left until it is due and runs when that reaches 0.                      *)

\* Generate clicks in one behaviour.
MaxClicks == 3

\* 1200 + Math.random() * 800 ms, in tenths of a second.
GenerationDelays == {12, 16, 19}

\* setTimeout(() => setStatus("ready"), 2500), in tenths of a second.
ResetDelay == 25

\* The sequence without its n-th element.
Without(seq, n) == SubSeq(seq, 1, n - 1) \o SubSeq(seq, n + 1, Len(seq))

ReportsInit ==
    /\ reportsView = ReportsViewMounted
    /\ scorerCalls = << >>
    /\ portfolioView = PortfolioViewMounted
    /\ input = NoInput
    /\ random = NoRandom
    /\ report = null
    /\ officerReport = null
    /\ riskCall = NoRiskCall
    /\ lendCall = NoLendCall
    /\ regionCalls = << >>
    /\ factorCall = NoFactorCall
    /\ projectionCall = NoProjectionCall

ReportsUnchanged ==
    UNCHANGED <<input, random, report, officerReport, riskCall, lendCall, regionCalls,
                factorCall, projectionCall, scorerCalls, portfolioView>>

\* A click on Generate (the button is disabled while status is
\* "generating"): handleGenerate up to its await.
handleGenerate ==
    /\ reportsView.status # "generating"
    /\ reportsView.clicks < MaxClicks
    /\ \E delay \in GenerationDelays :
           reportsView' = [reportsView EXCEPT
                              !.status = "generating",
                              !.generating = Append(@, delay),
                              !.clicks = @ + 1]
    /\ ReportsUnchanged

\* handleGenerate after its await: the record is put in front of history,
\* the status becomes "done" and the reset timer is started.
generationDone ==
    /\ \E n \in DOMAIN reportsView.generating :
           /\ reportsView.generating[n] = 0
           /\ reportsView' = [reportsView EXCEPT
                                 !.generating = Without(@, n),
                                 !.history = @ + 1,
                                 !.status = "done",
                                 !.timers = Append(@, ResetDelay)]
    /\ ReportsUnchanged

\* The reset timer's callback: setStatus("ready").
resetTimer ==
    /\ \E n \in DOMAIN reportsView.timers :
           /\ reportsView.timers[n] = 0
           /\ reportsView' = [reportsView EXCEPT
                                 !.timers = Without(@, n),
                                 !.status = "ready"]
    /\ ReportsUnchanged

\* A tenth of a second passes; no timeout is overdue.
reportsTick ==
    /\ reportsView.generating \o reportsView.timers # << >>
    /\ \A n \in DOMAIN reportsView.generating : reportsView.generating[n] > 0
    /\ \A n \in DOMAIN reportsView.timers : reportsView.timers[n] > 0
    /\ reportsView' = [reportsView EXCEPT
                          !.generating = [n \in DOMAIN @ |-> @[n] - 1],
                          !.timers = [n \in DOMAIN @ |-> @[n] - 1]]
    /\ ReportsUnchanged

ReportsNext == handleGenerate \/ generationDone \/ resetTimer \/ reportsTick

ReportsSpec == ReportsInit /\ [][ReportsNext]_vars

\* C29: the status is "generating" whenever a report generation is in
\* flight, so at most one generation runs at a time and no reset timer has
\* moved the status to "ready" under a running generation.
C29_GeneratingWhileInFlight ==
    /\ reportsView.generating # << >> => reportsView.status = "generating"
    /\ Len(reportsView.generating) <= 1

\* What does hold: a click is accepted only while the status is not
\* "generating", and a first generation runs alone.
FirstGenerationRunsAlone ==
    reportsView.clicks <= 1 =>
        /\ Len(reportsView.generating) <= 1
        /\ reportsView.generating # << >> => reportsView.status = "generating"

-----------------------------------------------------------------------------
(* PortfolioView: addZone, removeZone, clear-all and the fetch completions. *)
(* A zone is modelled by its locationId and status. The handlers of a      *)
(* render close over that render's zones (`rendered`); the updates are     *)
(* functional (prev => ..) and apply to the current zones. React renders   *)
(* before the next event after an update made in an event handler, and at  *)
(* a later moment after an update made in a promise continuation.          *)

\* Calls of addZone that start a fetch, in one behaviour.
MaxZoneAdds == 3

\* What the input field or a quick-add chip hands to addZone.
ZoneInputs == {"", "  ", "mum-001", "MUM-001", " del-007 "}

\* String.prototype.trim and toUpperCase on the strings of the model.
trim(s) == CASE s = "  " -> "" [] s = " del-007 " -> "del-007" [] OTHER -> s

toUpperCase(s) ==
    CASE s = "mum-001" -> "MUM-001" [] s = "del-007" -> "DEL-007" [] OTHER -> s

placeholder(trimmed) == [locationId |-> trimmed, status |-> "loading"]

\* fetchZonePortfolio(locationId) after its delay: the zone data, or a throw.
fetchZonePortfolio(locationId) ==
    IF trim(locationId) = ""
    THEN [threw |-> TRUE, data |-> placeholder(locationId)]
    ELSE [threw |-> FALSE, data |-> [locationId |-> locationId, status |-> "loaded"]]

alreadyListedNever(list, trimmed) == FALSE

\* zones.some(z => z.locationId === trimmed)
alreadyListed(list, trimmed) == \E n \in DOMAIN list : list[n].locationId = trimmed

\* prev.filter(z => z.locationId !== id)
filterOut(list, id) == SelectSeq(list, LAMBDA z : z.locationId # id)

\* prev.map(z => z.locationId === trimmed ? zone : z)
mapReplace(list, trimmed, zone) ==
    [n \in DOMAIN list |-> IF list[n].locationId = trimmed THEN zone ELSE list[n]]

PortfolioInit ==
    /\ portfolioView = PortfolioViewMounted
    /\ scorerCalls = << >>
    /\ reportsView = ReportsViewMounted
    /\ input = NoInput
    /\ random = NoRandom
    /\ report = null
    /\ officerReport = null
    /\ riskCall = NoRiskCall
    /\ lendCall = NoLendCall
    /\ regionCalls = << >>
    /\ factorCall = NoFactorCall
    /\ projectionCall = NoProjectionCall

PortfolioUnchanged ==
    UNCHANGED <<input, random, report, officerReport, riskCall, lendCall, regionCalls,
                factorCall, projectionCall, scorerCalls, reportsView>>

\* addZone(id) up to its await, and the render that follows the event.
addZone ==
    /\ portfolioView.added < MaxZoneAdds
    /\ \E id \in ZoneInputs :
           LET trimmed == toUpperCase(trim(id))
           IN  IF trimmed = "" \/ alreadyListed(portfolioView.rendered, trimmed)
               THEN UNCHANGED portfolioView
               ELSE LET zones == Append(portfolioView.zones, placeholder(trimmed))
                    IN  portfolioView' = [portfolioView EXCEPT
                                              !.zones = zones,
                                              !.rendered = zones,
                                              !.fetches = Append(@, trimmed),
                                              !.added = @ + 1]
    /\ PortfolioUnchanged

\* addZone after its await: the try / catch around fetchZonePortfolio. The
\* render comes later.
fetchDone ==
    /\ \E n \in DOMAIN portfolioView.fetches :
           LET trimmed == portfolioView.fetches[n]
               fetched == fetchZonePortfolio(trimmed)
               zone    == IF fetched.threw
                          THEN [placeholder(trimmed) EXCEPT !.status = "error"]
                          ELSE fetched.data
           IN  portfolioView' = [portfolioView EXCEPT
                                     !.zones = mapReplace(@, trimmed, zone),
                                     !.fetches = Without(@, n),
                                     !.settled = Append(@,
                                         [locationId |-> trimmed,
                                          replaced |-> alreadyListed(portfolioView.zones, trimmed)])]
    /\ PortfolioUnchanged

\* The remove button of a zone card of the last render.
removeZone ==
    /\ \E n \in DOMAIN portfolioView.rendered :
           LET id    == portfolioView.rendered[n].locationId
               zones == filterOut(portfolioView.zones, id)
           IN  portfolioView' = [portfolioView EXCEPT
                                     !.zones = zones,
                                     !.rendered = zones,
                                     !.selectedZoneId =
                                         IF @ = id THEN "null" ELSE @]
    /\ PortfolioUnchanged

\* The clear-all button, shown while zones.length > 0.
clearAll ==
    /\ portfolioView.rendered # << >>
    /\ portfolioView' = [portfolioView EXCEPT
                             !.zones = << >>, !.rendered = << >>,
                             !.selectedZoneId = "null"]
    /\ PortfolioUnchanged

\* A click on a zone card: setSelectedZoneId(prev => prev === id ? null : id).
selectZone ==
    /\ \E n \in DOMAIN portfolioView.rendered :
           LET id == portfolioView.rendered[n].locationId
           IN  portfolioView' = [portfolioView EXCEPT
                                     !.rendered = portfolioView.zones,
                                     !.selectedZoneId = IF @ = id THEN "null" ELSE id]
    /\ PortfolioUnchanged

\* The render React schedules after the updates of a fetch completion.
render ==
    /\ portfolioView.rendered # portfolioView.zones
    /\ portfolioView' = [portfolioView EXCEPT !.rendered = portfolioView.zones]
    /\ PortfolioUnchanged

PortfolioNext == addZone \/ fetchDone \/ removeZone \/ clearAll \/ selectZone \/ render

PortfolioSpec == PortfolioInit /\ [][PortfolioNext]_vars

\* No two zones share a locationId, no zone is in status "error", and no
\* fetch runs for an empty ID.
ZonesWellFormed ==
    LET zones == portfolioView.zones
    IN  /\ \A i, j \in DOMAIN zones : zones[i].locationId = zones[j].locationId => i = j
        /\ \A i \in DOMAIN zones : zones[i].status # "error"
        /\ \A k \in DOMAIN portfolioView.fetches : trim(portfolioView.fetches[k]) # ""

\* A step that completes a fetch keeps the locationIds of the list as they
\* are and changes only entries with the locationId the fetch was started for.
FetchOnlyReplaces ==
    Len(portfolioView'.settled) > Len(portfolioView.settled) =>
        LET id == portfolioView'.settled[Len(portfolioView'.settled)].locationId
        IN  /\ DOMAIN portfolioView'.zones = DOMAIN portfolioView.zones
            /\ \A n \in DOMAIN portfolioView.zones :
                   /\ portfolioView'.zones[n].locationId = portfolioView.zones[n].locationId
                   /\ portfolioView'.zones[n] # portfolioView.zones[n]
                          => portfolioView.zones[n].locationId = id

\* C30: after any interleaving of addZone, removeZone, clear-all and fetch
\* completions the zones list never holds two entries with the same
\* locationId, a fetch completion only replaces an entry whose locationId it
\* was started for (it never re-adds a removed or cleared zone), and no zone
\* ends in status "error", addZone never fetching an empty ID.
C30_ZonesConsistent == []ZonesWellFormed /\ [][FetchOnlyReplaces]_vars

\* A fetch has completed for a zone that was removed or cleared meanwhile,
\* another has replaced its placeholder, and the list holds one loaded zone.
C30_Witness ==
    /\ \E k \in DOMAIN portfolioView.settled : ~portfolioView.settled[k].replaced
    /\ \E k \in DOMAIN portfolioView.settled : portfolioView.settled[k].replaced
    /\ Len(portfolioView.zones) = 1
    /\ portfolioView.zones[1].status = "loaded"
    /\ portfolioView.fetches = << >>

=============================================================================
